---- MODULE Spec2Model ----
(***************************************************************************)
(* Lambda log interpretation of the console: useLogsQuery fetches pages of *)
(* CloudWatch events, removes duplicates (uniqBy), orders them (sortLogs), *)
(* classifies every event (parseLogMetadata) and folds the classified      *)
(* lines into invocations (groupLogs).                                     *)
(*                                                                         *)
(* A JavaScript string is a tuple of one-character strings, so that trim,  *)
(* split, substr, startsWith, the regular expressions and the comparison   *)
(* of sort keys are computed as the code computes them.  `undefined` is    *)
(* the tuple UNDEF for string-valued fields, NoTime for numbers and        *)
(* NoLevel for the level of a line.                                        *)
(***************************************************************************)
EXTENDS Integers, Sequences, FiniteSets, TLC

----------------------------------------------------------------------------
(* JavaScript values and string primitives *)

UNDEF == <<"undefined">>

NoTime == -1

NoLevel == "undefined"

Falsy(s) == s = UNDEF \/ s = <<>>

FalsyNum(n) == n = NoTime \/ n = 0

Min(a, b) == IF a < b THEN a ELSE b

WhiteSpace == {" ", "\t", "\n", "\r"}

Digit == {"0", "1", "2", "3", "4", "5", "6", "7", "8", "9"}

HexOrDash == Digit \cup {"a", "b", "c", "d", "e", "f", "A", "B", "C", "D", "E", "F", "-"}

StartsWith(s, p) == Len(s) >= Len(p) /\ SubSeq(s, 1, Len(p)) = p

Substr(s, start, length) == SubSeq(s, start + 1, Min(start + length, Len(s)))

Slice(arr, n) == SubSeq(arr, n + 1, Len(arr))

At(arr, i) == IF i + 1 <= Len(arr) THEN arr[i + 1] ELSE UNDEF

RECURSIVE TrimStart(_)
TrimStart(s) == IF s # <<>> /\ s[1] \in WhiteSpace THEN TrimStart(Tail(s)) ELSE s

RECURSIVE TrimEnd(_)
TrimEnd(s) ==
  IF s # <<>> /\ s[Len(s)] \in WhiteSpace THEN TrimEnd(SubSeq(s, 1, Len(s) - 1)) ELSE s

Trim(s) == TrimEnd(TrimStart(s))

(* String.prototype.split on a one-character separator: the pieces of s    *)
(* between the occurrences of sep ([""] for the empty string) *)
Split(s, sep) ==
  LET pos == SelectSeq([i \in 1..Len(s) |-> i], LAMBDA i : s[i] = sep)
  IN  [k \in 1..(Len(pos) + 1) |->
         SubSeq(s, IF k = 1 THEN 1 ELSE pos[k - 1] + 1,
                   IF k = Len(pos) + 1 THEN Len(s) ELSE pos[k] - 1)]

RECURSIVE Join(_, _)
Join(parts, sep) ==
  IF parts = <<>> THEN <<>>
  ELSE IF Len(parts) = 1 THEN parts[1]
  ELSE parts[1] \o <<sep>> \o Join(Tail(parts), sep)

(* /^\d{4}-\d{2}-\d{2}T\d{2}:\d{2}:\d{2}\.\d{3}Z$/ *)
IsoShape == <<"d","d","d","d","-","d","d","-","d","d","T","d","d",":","d","d",":","d","d",".","d","d","d","Z">>

MatchesShape(s, shape) ==
  /\ Len(s) = Len(shape)
  /\ \A i \in 1..Len(s) : IF shape[i] = "d" THEN s[i] \in Digit ELSE s[i] = shape[i]

IsIsoTimestamp(s) == MatchesShape(s, IsoShape)

(* /^\d{4}-\d{2}-\d{2}T\d{2}:\d{2}:\d{2}(\.\d{1,3})?Z$/ *)
IsPythonTimestamp(s) ==
  \/ MatchesShape(s, SubSeq(IsoShape, 1, 19) \o <<"Z">>)
  \/ \E n \in 1..3 : MatchesShape(s, SubSeq(IsoShape, 1, 20 + n) \o <<"Z">>)

IdLen == 36

(* /^[0-9a-fA-F-]{36}$/ *)
IsRequestId(s) == Len(s) = IdLen /\ \A i \in 1..Len(s) : s[i] \in HexOrDash

TracebackText == <<"T","r","a","c","e","b","a","c","k"," ","(","m","o","s","t"," ","r","e","c","e","n","t"," ","c","a","l","l"," ","l","a","s","t",")",":">>

(* /\sTraceback \(most recent call last\):\s/ *)
HasTraceback(s) ==
  \E i \in 1..Len(s) :
    /\ s[i] \in WhiteSpace
    /\ i + Len(TracebackText) + 1 <= Len(s)
    /\ SubSeq(s, i + 1, i + Len(TracebackText)) = TracebackText
    /\ s[i + Len(TracebackText) + 1] \in WhiteSpace

(* UTF-16 code units of the characters that occur in sort keys *)
CodeOf ==
  ("$" :> 36) @@ ("-" :> 45) @@ ("/" :> 47) @@ ("0" :> 48) @@ ("1" :> 49) @@ ("2" :> 50)
  @@ ("3" :> 51) @@ ("4" :> 52) @@ ("5" :> 53) @@ ("a" :> 97) @@ ("b" :> 98)

(* the relational comparison of two strings: code unit by code unit, a    *)
(* proper prefix is smaller *)
RECURSIVE StrLess(_, _)
StrLess(a, b) ==
  IF b = <<>> THEN FALSE
  ELSE IF a = <<>> THEN TRUE
  ELSE IF a[1] = b[1] THEN StrLess(Tail(a), Tail(b))
  ELSE CodeOf[a[1]] < CodeOf[b[1]]

----------------------------------------------------------------------------
(* parseLogMetadata and its matchers *)

NoMetadata == [present |-> FALSE, duration |-> UNDEF, memSize |-> UNDEF, memUsed |-> UNDEF,
               xrayTraceId |-> UNDEF, isFailed |-> "undefined"]

(* log.invocationMetadata = log.invocationMetadata || {} *)
EnsureMetadata(log) == [log EXCEPT !.invocationMetadata.present = TRUE]

ParseLambdaSTART(log) ==
  IF StartsWith(log.message, <<"S","T","A","R","T"," ","R","e","q","u","e","s","t","I","d",":"," ">>)
    THEN [log EXCEPT !.level = "START", !.requestId = Substr(log.message, 17, IdLen)]
    ELSE log

(* the offset of the START prefix used for END *)
ParseLambdaENDOffset(log) ==
  IF StartsWith(log.message, <<"E","N","D"," ","R","e","q","u","e","s","t","I","d",":"," ">>)
    THEN [log EXCEPT !.level = "END", !.requestId = Substr(log.message, 17, IdLen)]
    ELSE log

ParseLambdaEND(log) ==
  IF StartsWith(log.message, <<"E","N","D"," ","R","e","q","u","e","s","t","I","d",":"," ">>)
    THEN [log EXCEPT !.level = "END", !.requestId = Substr(log.message, 15, IdLen)]
    ELSE log

(* the word after "Max Memory" for the word after "Max Memory Used:" *)
ReportPartWrongWord(md, rawPart) ==
  LET part == Trim(rawPart)
      words == Split(part, " ")
  IN  IF StartsWith(part, <<"D","u","r","a","t","i","o","n">>) THEN [md EXCEPT !.duration = At(words, 1)]
      ELSE IF StartsWith(part, <<"M","e","m","o","r","y"," ","S","i","z","e">>) THEN [md EXCEPT !.memSize = At(words, 2)]
      ELSE IF StartsWith(part, <<"M","a","x"," ","M","e","m","o","r","y"," ","U","s","e","d">>) THEN [md EXCEPT !.memUsed = At(words, 2)]
      ELSE IF StartsWith(part, <<"X","R","A","Y"," ","T","r","a","c","e","I","d">>) THEN [md EXCEPT !.xrayTraceId = At(words, 2)]
      ELSE md

(* the body of the forEach over log.message.split("\t") *)
ReportPart(md, rawPart) ==
  LET part == Trim(rawPart)
      words == Split(part, " ")
  IN  IF StartsWith(part, <<"D","u","r","a","t","i","o","n">>) THEN [md EXCEPT !.duration = At(words, 1)]
      ELSE IF StartsWith(part, <<"M","e","m","o","r","y"," ","S","i","z","e">>) THEN [md EXCEPT !.memSize = At(words, 2)]
      ELSE IF StartsWith(part, <<"M","a","x"," ","M","e","m","o","r","y"," ","U","s","e","d">>) THEN [md EXCEPT !.memUsed = At(words, 3)]
      ELSE IF StartsWith(part, <<"X","R","A","Y"," ","T","r","a","c","e","I","d">>) THEN [md EXCEPT !.xrayTraceId = At(words, 2)]
      ELSE md

RECURSIVE ReportParts(_, _)
ReportParts(md, parts) ==
  IF parts = <<>> THEN md ELSE ReportParts(ReportPart(md, Head(parts)), Tail(parts))

ParseLambdaREPORT(log) ==
  IF StartsWith(log.message, <<"R","E","P","O","R","T"," ","R","e","q","u","e","s","t","I","d",":"," ">>)
    THEN LET l1 == EnsureMetadata([log EXCEPT !.level = "REPORT",
                                              !.requestId = Substr(log.message, 18, IdLen)])
         IN  [l1 EXCEPT !.invocationMetadata =
                          ReportParts(l1.invocationMetadata, Split(log.message, "\t"))]
    ELSE log

(* isFailed || isFailed' on undefined/true/false *)
OrFlag(old, new) == IF old = "true" THEN "true" ELSE IF new THEN "true" ELSE "false"

(* slice(1) for slice(2): the id stays in the message *)
TimeoutOrMessageKeepsId(log, spcParts) ==
  IF /\ Len(spcParts) >= 3
     /\ IsIsoTimestamp(spcParts[1])
     /\ IsRequestId(spcParts[2])
    THEN LET message == Join(Slice(spcParts, 1), " ")
             isFailed == StartsWith(message, <<"T","a","s","k"," ","t","i","m","e","d"," ","o","u","t"," ","a","f","t","e","r">>)
             l1 == EnsureMetadata([log EXCEPT !.requestId = spcParts[2],
                                              !.level = IF isFailed THEN "ERROR" ELSE "INFO",
                                              !.message = message])
         IN  [l1 EXCEPT !.invocationMetadata.isFailed =
                          OrFlag(l1.invocationMetadata.isFailed, isFailed)]
    ELSE log

ParseLambdaTimeoutOrMessage(log, spcParts) ==
  IF /\ Len(spcParts) >= 3
     /\ IsIsoTimestamp(spcParts[1])
     /\ IsRequestId(spcParts[2])
    THEN LET message == Join(Slice(spcParts, 2), " ")
             isFailed == StartsWith(message, <<"T","a","s","k"," ","t","i","m","e","d"," ","o","u","t"," ","a","f","t","e","r">>)
             l1 == EnsureMetadata([log EXCEPT !.requestId = spcParts[2],
                                              !.level = IF isFailed THEN "ERROR" ELSE "INFO",
                                              !.message = message])
         IN  [l1 EXCEPT !.invocationMetadata.isFailed =
                          OrFlag(l1.invocationMetadata.isFailed, isFailed)]
    ELSE log

(* the failure flag is not set *)
ExitedUnflagged(log, spcParts) ==
  IF /\ Len(spcParts) >= 3
     /\ spcParts[1] = <<"R","e","q","u","e","s","t","I","d",":">>
     /\ IsRequestId(spcParts[2])
    THEN EnsureMetadata([log EXCEPT !.requestId = spcParts[2],
                                    !.level = "ERROR",
                                    !.message = Join(Slice(spcParts, 2), " ")])
    ELSE log

ParseLambdaExited(log, spcParts) ==
  IF /\ Len(spcParts) >= 3
     /\ spcParts[1] = <<"R","e","q","u","e","s","t","I","d",":">>
     /\ IsRequestId(spcParts[2])
    THEN LET l1 == EnsureMetadata([log EXCEPT !.requestId = spcParts[2],
                                              !.level = "ERROR",
                                              !.message = Join(Slice(spcParts, 2), " ")])
         IN  [l1 EXCEPT !.invocationMetadata.isFailed = "true"]
    ELSE log

ParseLambdaUnknownApplicationError(log) ==
  IF StartsWith(log.message, <<"U","n","k","n","o","w","n"," ","a","p","p","l","i","c","a","t","i","o","n"," ","e","r","r","o","r"," ","o","c","c","u","r","r","e","d">>)
    THEN EnsureMetadata([log EXCEPT !.level = "ERROR"])
    ELSE log

ParseLambdaModuleInitializationError(log) ==
  IF StartsWith(log.message, <<"m","o","d","u","l","e"," ","i","n","i","t","i","a","l","i","z","a","t","i","o","n"," ","e","r","r","o","r">>)
    THEN EnsureMetadata([log EXCEPT !.level = "ERROR"])
    ELSE log

(* `log.requestId = requestId = ...` assigns to the undeclared name        *)
(* requestId: in module (strict) code the inner assignment raises a        *)
(* ReferenceError before log.requestId, the level or the message are       *)
(* written.  The result says whether the call raised. *)
ParseLambdaNodeLog(log, tabParts) ==
  IF Len(tabParts) >= 3 /\ IsIsoTimestamp(tabParts[1])
    THEN [log |-> log, raised |-> TRUE]
    ELSE [log |-> log, raised |-> FALSE]

ParseLambdaPythonLog(log, tabParts) ==
  IF /\ Len(tabParts) >= 4
     /\ IsPythonTimestamp(tabParts[2])
     /\ IsRequestId(tabParts[3])
    THEN [log EXCEPT !.requestId = tabParts[3],
                     !.level = IF tabParts[1] = <<"[","I","N","F","O","]">> THEN "INFO"
                               ELSE IF tabParts[1] = <<"[","W","A","R","N","I","N","G","]">> THEN "WARN"
                               ELSE IF tabParts[1] = <<"[","E","R","R","O","R","]">> \/ tabParts[1] = <<"[","C","R","I","T","I","C","A","L","]">>
                                 THEN "ERROR"
                               ELSE "INFO",
                     !.message = tabParts[1] \o <<" ">> \o Join(Slice(tabParts, 3), "\t")]
    ELSE log

ParseLambdaPythonTraceback(log) ==
  IF HasTraceback(log.message)
    THEN LET l1 == EnsureMetadata([log EXCEPT !.level = "ERROR"])
         IN  [l1 EXCEPT !.invocationMetadata.isFailed = "true"]
    ELSE log

(* runtime.startsWith("nodejs") *)
IsNodeFamily(runtime) == StartsWith(runtime, <<"n","o","d","e","j","s">>)

(* the test left out: the python matchers run for every runtime *)
AnyFamily(runtime) == TRUE

(* runtime.startsWith("python") *)
IsPythonFamily(runtime) == StartsWith(runtime, <<"p","y","t","h","o","n">>)

(* lines 221-225: skipped when START, END or REPORT assigned a level.      *)
(* Every matcher returns undefined, so `a(log) || b(log)` calls both, and  *)
(* only `log.level ||` skips the group *)
SpaceSteps(l1) ==
  IF l1.level # NoLevel THEN l1
  ELSE ParseLambdaTimeoutOrMessage(
         ParseLambdaExited(
           ParseLambdaModuleInitializationError(
             ParseLambdaUnknownApplicationError(l1)), Split(l1.message, " ")),
         Split(l1.message, " "))

(* lines 215-225: the matchers that work for every runtime *)
AgnosticSteps(log0) == SpaceSteps(ParseLambdaREPORT(ParseLambdaEND(ParseLambdaSTART(log0))))

(* lines 232-234 *)
NodeStep(l2, tabParts, runtime) ==
  IF IsNodeFamily(runtime) /\ l2.level = NoLevel
    THEN ParseLambdaNodeLog(l2, tabParts)
    ELSE [log |-> l2, raised |-> FALSE]

(* lines 239-243, not reached when the node step raised *)
PythonStep(node, tabParts, runtime) ==
  IF node.raised THEN node
  ELSE IF IsPythonFamily(runtime) /\ node.log.level = NoLevel
    THEN [log |-> ParseLambdaPythonTraceback(ParseLambdaPythonLog(node.log, tabParts)),
          raised |-> FALSE]
  ELSE node

(* lines 227-243: tabParts is split once, from the message as lines        *)
(* 215-225 left it *)
FamilySteps(l2, runtime) ==
  PythonStep(NodeStep(l2, Split(l2.message, "\t"), runtime), Split(l2.message, "\t"), runtime)

(* the statements of the try block *)
TryBlock(log0, runtime) == FamilySteps(AgnosticSteps(log0), runtime)

(* the exception leaves parseLogMetadata *)
Rethrow(r) == r

(* catch (e) { }: the exception is dropped, the log keeps what was written *)
Catch(r) == [log |-> r.log, raised |-> FALSE]

(* trimStart for trim *)
NewLogTrimStart(event) ==
  [id |-> event.eventId,
   message |-> TrimStart(event.message),
   timestamp |-> event.timestamp,
   level |-> NoLevel,
   requestId |-> UNDEF,
   logStream |-> event.logStreamName,
   invocationMetadata |-> NoMetadata]

(* the object literal of lines 207-212 *)
NewLog(event) ==
  [id |-> event.eventId,
   message |-> Trim(event.message),
   timestamp |-> event.timestamp,
   level |-> NoLevel,
   requestId |-> UNDEF,
   logStream |-> event.logStreamName,
   invocationMetadata |-> NoMetadata]

(* the default is never assigned *)
DefaultLevelNever(r) == r

(* lines 247-252: did not match any pattern *)
DefaultLevel(r) ==
  [log |-> IF r.log.level = NoLevel THEN [r.log EXCEPT !.level = "INFO"] ELSE r.log,
   raised |-> r.raised]

ParseLogMetadata(event, runtime) == DefaultLevel(Catch(TryBlock(NewLog(event), runtime)))

----------------------------------------------------------------------------
(* the normalizer: uniqBy and sortLogs *)

RECURSIVE FlatMap(_)
FlatMap(ps) == IF ps = <<>> THEN <<>> ELSE Head(ps) \o FlatMap(Tail(ps))

(* keeps an event only when the one right before it has another identifier *)
RECURSIVE UniqByAdjacent(_)
UniqByAdjacent(events) ==
  IF events = <<>> THEN <<>>
  ELSE LET init == UniqByAdjacent(SubSeq(events, 1, Len(events) - 1))
           last == events[Len(events)]
       IN  IF Len(events) > 1 /\ events[Len(events) - 1].eventId = last.eventId
             THEN init
             ELSE Append(init, last)

(* the test negated: keeps the later copies and drops every first one *)
UniqBySeen(events) ==
  LET kept == SelectSeq([i \in 1..Len(events) |-> i],
                        LAMBDA i : \E j \in 1..(i - 1) : events[j].eventId = events[i].eventId)
  IN  [k \in 1..Len(kept) |-> events[kept[k]]]

(* remeda's uniqBy(events, event => event.eventId): the first event of     *)
(* every identifier, in the order of first occurrence *)
RECURSIVE UniqBy(_)
UniqBy(events) ==
  IF events = <<>> THEN <<>>
  ELSE LET init == UniqBy(SubSeq(events, 1, Len(events) - 1))
           last == events[Len(events)]
       IN  IF \E i \in 1..Len(init) : init[i].eventId = last.eventId
             THEN init
             ELSE Append(init, last)

(* `${log.logStreamName}-${log.eventId}` *)
SortKey(log) == log.logStreamName \o <<"-">> \o log.eventId

WithSortKey(log) ==
  [eventId |-> log.eventId, logStreamName |-> log.logStreamName,
   timestamp |-> log.timestamp, message |-> log.message, sortKey |-> SortKey(log)]

(* Array.prototype.sort is stable: an element goes before the first        *)
(* element that the comparator puts strictly after it *)
InsertByKey(sorted, x) ==
  LET later == {j \in 1..Len(sorted) : StrLess(x.sortKey, sorted[j].sortKey)}
      k == IF later = {} THEN Len(sorted) + 1
           ELSE CHOOSE j \in later : \A m \in later : j <= m
  IN  SubSeq(sorted, 1, k - 1) \o <<x>> \o SubSeq(sorted, k, Len(sorted))

RECURSIVE SortByKey(_)
SortByKey(logs) ==
  IF logs = <<>> THEN <<>>
  ELSE InsertByKey(SortByKey(SubSeq(logs, 1, Len(logs) - 1)), logs[Len(logs)])

SortLogs(logs) == SortByKey([i \in 1..Len(logs) |-> WithSortKey(logs[i])])

----------------------------------------------------------------------------
(* groupLogs *)

(* { logs: [], logLevel: "INFO" }; lines is a history field: the positions *)
(* in the input of the lines whose messages are in logs *)
NewInvocation ==
  [logs |-> <<>>, requestId |-> UNDEF, logStream |-> UNDEF, firstLineTime |-> NoTime,
   startTime |-> NoTime, endTime |-> NoTime, duration |-> UNDEF, memSize |-> UNDEF,
   memUsed |-> UNDEF, xrayTraceId |-> UNDEF, logLevel |-> "INFO", lines |-> <<>>]

(* length > 1 for length > 0 *)
PushLong(invocations, cur) == IF Len(cur.logs) > 1 THEN Append(invocations, cur) ELSE invocations

(* currentInvocation.logs.length > 0 && invocations.push(currentInvocation) *)
Push(invocations, cur) == IF Len(cur.logs) > 0 THEN Append(invocations, cur) ELSE invocations

(* log.invocationMetadata?.field *)
MetaField(log, f) == IF log.invocationMetadata.present THEN log.invocationMetadata[f] ELSE UNDEF

EscalatedLevel(curLevel, lineLevel) ==
  IF lineLevel = "ERROR" THEN "ERROR"
  ELSE IF lineLevel = "WARN" /\ curLevel # "ERROR" THEN "WARN"
  ELSE "INFO"

(* the stream is never compared *)
StreamChangeNever(invs0, cur0, log) == [invocations |-> invs0, current |-> cur0]

(* lines 439-442: another log stream ends the current invocation *)
StreamChange(invs0, cur0, log) ==
  IF log.logStream # cur0.logStream
    THEN [invocations |-> Push(invs0, cur0), current |-> NewInvocation]
    ELSE [invocations |-> invs0, current |-> cur0]

(* START joins the invocation that is being accumulated *)
StartBranchKeeps(invs1, cur1, log, i) ==
  [invocations |-> invs1,
   current |-> [cur1 EXCEPT !.logs = Append(@, log.message),
                            !.lines = Append(@, i),
                            !.requestId = log.requestId,
                            !.logStream = log.logStream,
                            !.firstLineTime = log.timestamp,
                            !.startTime = log.timestamp]]

(* lines 444-452 *)
StartBranch(invs1, cur1, log, i) ==
  [invocations |-> Push(invs1, cur1),
   current |-> [NewInvocation EXCEPT !.logs = <<log.message>>,
                                     !.lines = <<i>>,
                                     !.requestId = log.requestId,
                                     !.logStream = log.logStream,
                                     !.firstLineTime = log.timestamp,
                                     !.startTime = log.timestamp]]

(* the invocation stays open after its REPORT line *)
ReportBranchStaysOpen(invs1, cur1, log, i) ==
  [invocations |-> invs1,
   current |->
     [cur1 EXCEPT !.logs = Append(@, log.message),
                  !.lines = Append(@, i),
                  !.requestId = IF Falsy(@) THEN log.requestId ELSE @,
                  !.logStream = log.logStream,
                  !.firstLineTime = IF FalsyNum(@) THEN log.timestamp ELSE @,
                  !.endTime = log.timestamp,
                  !.duration = MetaField(log, "duration"),
                  !.memSize = MetaField(log, "memSize"),
                  !.memUsed = MetaField(log, "memUsed"),
                  !.xrayTraceId = MetaField(log, "xrayTraceId")]]

(* the request id of the REPORT line is never taken *)
ReportBranchKeepsId(invs1, cur1, log, i) ==
  [invocations |->
     Append(invs1,
       [cur1 EXCEPT !.logs = Append(@, log.message),
                    !.lines = Append(@, i),
                    !.logStream = log.logStream,
                    !.firstLineTime = IF FalsyNum(@) THEN log.timestamp ELSE @,
                    !.endTime = log.timestamp,
                    !.duration = MetaField(log, "duration"),
                    !.memSize = MetaField(log, "memSize"),
                    !.memUsed = MetaField(log, "memUsed"),
                    !.xrayTraceId = MetaField(log, "xrayTraceId")]),
   current |-> NewInvocation]

(* lines 453-465 *)
ReportBranch(invs1, cur1, log, i) ==
  [invocations |->
     Append(invs1,
       [cur1 EXCEPT !.logs = Append(@, log.message),
                    !.lines = Append(@, i),
                    !.requestId = IF Falsy(@) THEN log.requestId ELSE @,
                    !.logStream = log.logStream,
                    !.firstLineTime = IF FalsyNum(@) THEN log.timestamp ELSE @,
                    !.endTime = log.timestamp,
                    !.duration = MetaField(log, "duration"),
                    !.memSize = MetaField(log, "memSize"),
                    !.memUsed = MetaField(log, "memUsed"),
                    !.xrayTraceId = MetaField(log, "xrayTraceId")]),
   current |-> NewInvocation]

(* logs.unshift for logs.push *)
OtherBranchPrepends(invs1, cur1, log, i) ==
  [invocations |-> invs1,
   current |-> [cur1 EXCEPT !.logs = <<log.message>> \o @,
                            !.lines = <<i>> \o @,
                            !.requestId = IF Falsy(@) THEN log.requestId ELSE @,
                            !.logStream = log.logStream,
                            !.firstLineTime = IF FalsyNum(@) THEN log.timestamp ELSE @,
                            !.logLevel = EscalatedLevel(@, log.level)]]

(* an END line closes the invocation *)
OtherBranchEndCloses(invs1, cur1, log, i) ==
  LET cur2 == [cur1 EXCEPT !.logs = Append(@, log.message),
                           !.lines = Append(@, i),
                           !.requestId = IF Falsy(@) THEN log.requestId ELSE @,
                           !.logStream = log.logStream,
                           !.firstLineTime = IF FalsyNum(@) THEN log.timestamp ELSE @,
                           !.logLevel = EscalatedLevel(@, log.level)]
  IN  IF log.level = "END"
        THEN [invocations |-> Append(invs1, cur2), current |-> NewInvocation]
        ELSE [invocations |-> invs1, current |-> cur2]

(* lines 466-474 *)
OtherBranch(invs1, cur1, log, i) ==
  [invocations |-> invs1,
   current |-> [cur1 EXCEPT !.logs = Append(@, log.message),
                            !.lines = Append(@, i),
                            !.requestId = IF Falsy(@) THEN log.requestId ELSE @,
                            !.logStream = log.logStream,
                            !.firstLineTime = IF FalsyNum(@) THEN log.timestamp ELSE @,
                            !.logLevel = EscalatedLevel(@, log.level)]]

(* the callback of logs.forEach, applied to the line at position i *)
GroupLine(invs0, cur0, log, i) ==
  LET s == StreamChange(invs0, cur0, log)
  IN  IF log.level = "START" THEN StartBranch(s.invocations, s.current, log, i)
      ELSE IF log.level = "REPORT" THEN ReportBranch(s.invocations, s.current, log, i)
      ELSE OtherBranch(s.invocations, s.current, log, i)

(* an invocation goes before the ones of its own firstLineTime *)
InsertByTimeBeforeTies(sorted, x) ==
  LET later == {j \in 1..Len(sorted) : sorted[j].firstLineTime - x.firstLineTime <= 0}
      k == IF later = {} THEN Len(sorted) + 1
           ELSE CHOOSE j \in later : \A m \in later : j <= m
  IN  SubSeq(sorted, 1, k - 1) \o <<x>> \o SubSeq(sorted, k, Len(sorted))

(* a.firstLineTime - b.firstLineTime: oldest first *)
InsertByTimeAscending(sorted, x) ==
  LET later == {j \in 1..Len(sorted) : x.firstLineTime - sorted[j].firstLineTime < 0}
      k == IF later = {} THEN Len(sorted) + 1
           ELSE CHOOSE j \in later : \A m \in later : j <= m
  IN  SubSeq(sorted, 1, k - 1) \o <<x>> \o SubSeq(sorted, k, Len(sorted))

(* invocations.sort((a, b) => b.firstLineTime - a.firstLineTime), stable *)
InsertByTime(sorted, x) ==
  LET later == {j \in 1..Len(sorted) : sorted[j].firstLineTime - x.firstLineTime < 0}
      k == IF later = {} THEN Len(sorted) + 1
           ELSE CHOOSE j \in later : \A m \in later : j <= m
  IN  SubSeq(sorted, 1, k - 1) \o <<x>> \o SubSeq(sorted, k, Len(sorted))

RECURSIVE SortInvocations(_)
SortInvocations(invs) ==
  IF invs = <<>> THEN <<>>
  ELSE InsertByTime(SortInvocations(SubSeq(invs, 1, Len(invs) - 1)), invs[Len(invs)])

(* the fold of groupLogs over the first n lines *)
RECURSIVE Fold(_, _)
Fold(logs, n) ==
  IF n = 0 THEN [invocations |-> <<>>, current |-> NewInvocation]
  ELSE LET st == Fold(logs, n - 1) IN GroupLine(st.invocations, st.current, logs[n], n)

GroupLogs(logs) ==
  LET st == Fold(logs, Len(logs)) IN SortInvocations(Push(st.invocations, st.current))

----------------------------------------------------------------------------
(* inputs *)

MaxFetched == 3

MaxLines == 4

NodeRuntime == <<"n","o","d","e","j","s","1","4",".","x">>

PythonRuntime == <<"p","y","t","h","o","n","3",".","8">>

GoRuntime == <<"g","o","1",".","x">>

Runtimes == {NodeRuntime, PythonRuntime, GoRuntime}

Req1 == <<"1","1","1","1","1","1","1","1","-","1","1","1","1","-","1","1","1","1","-","1","1","1","1","-","1","1","1","1","1","1","1","1","1","1","1","1">>

Req2 == <<"a","b","c","d","e","f","a","b","-","a","b","c","d","-","a","b","c","d","-","a","b","c","d","-","a","b","c","d","e","f","a","b","c","d","e","f">>

MsgStart(req) == <<"S","T","A","R","T"," ","R","e","q","u","e","s","t","I","d",":"," ">> \o req \o <<" ","V","e","r","s","i","o","n",":"," ","$","L","A","T","E","S","T","\n">>

MsgEnd(req) == <<"E","N","D"," ","R","e","q","u","e","s","t","I","d",":"," ">> \o req \o <<"\n">>

MsgReport(req) ==
  <<"R","E","P","O","R","T"," ","R","e","q","u","e","s","t","I","d",":"," ">> \o req
    \o <<"\t","D","u","r","a","t","i","o","n",":"," ","1","2",".","3"," ","m","s","\t","B","i","l","l","e","d"," ","D","u","r","a","t","i","o","n",":"," ","1","3"," ","m","s","\t","M","e","m","o","r","y"," ","S","i","z","e",":"," ","1","2","8"," ","M","B","\t","M","a","x"," ","M","e","m","o","r","y"," ","U","s","e","d",":"," ","4","5"," ","M","B","\t","\n">>

MsgPlain == <<"h","e","l","l","o","\n">>

MsgNodeWarn(req) == <<"2","0","1","9","-","1","1","-","1","2","T","2","0",":","0","0",":","3","0",".","1","8","4","Z","\t">> \o req \o <<"\t","W","A","R","N","\t","w","a","r","n"," ","h","e","l","l","o","\n">>

MsgPythonWarning(req) == <<"[","W","A","R","N","I","N","G","]","\t","2","0","1","9","-","1","1","-","1","2","T","2","0",":","0","0",":","3","0",".","1","8","3","Z","\t">> \o req \o <<"\t","t","h","i","s"," ","i","s"," ","a"," ","w","a","r","n","\n">>

MsgUnknownError == <<"U","n","k","n","o","w","n"," ","a","p","p","l","i","c","a","t","i","o","n"," ","e","r","r","o","r"," ","o","c","c","u","r","r","e","d","\n">>

Event(id, stream, ts, msg) ==
  [eventId |-> id, logStreamName |-> stream, timestamp |-> ts, message |-> msg]

StreamA == <<"a">>

StreamA1 == <<"a","-","1">>

StreamB == <<"b">>

(* the events CloudWatch holds; an event identifier names one event *)
EventPool ==
  { Event(<<"1","2">>, StreamA, 1, MsgStart(Req1)),
    Event(<<"2">>, StreamA, 2, MsgUnknownError),
    Event(<<"3">>, StreamA, 2, MsgReport(Req1)),
    Event(<<"0">>, StreamA, 0, MsgNodeWarn(Req1)),
    Event(<<"5">>, StreamA1, 3, MsgPythonWarning(Req2)) }

RECURSIVE SeqsUpTo(_, _)
SeqsUpTo(S, n) ==
  IF n = 0 THEN {<<>>}
  ELSE LET shorter == SeqsUpTo(S, n - 1)
       IN  shorter \cup {Append(s, x) : s \in {t \in shorter : Len(t) = n - 1}, x \in S}

(* what a fetch adds to the bound on the fetched pages: the events of the  *)
(* page, an empty page counting for one *)
Cost(page) == IF page = <<>> THEN 1 ELSE Len(page)

RECURSIVE Fetched(_)
Fetched(ps) == IF ps = <<>> THEN 0 ELSE Cost(Head(ps)) + Fetched(Tail(ps))

PagePool == SeqsUpTo(EventPool, MaxFetched)

(* the pages that fit when room more may be fetched *)
PagesWithin == [room \in 0..MaxFetched |-> {page \in PagePool : Cost(page) <= room}]

(* classified lines for groupLogs: every level on two streams *)
GroupEvents ==
  { Event(<<"1">>, StreamA, 2, MsgStart(Req1)),
    Event(<<"2">>, StreamA, 0, MsgPlain),
    Event(<<"3">>, StreamA, 1, MsgPythonWarning(Req2)),
    Event(<<"4">>, StreamA, 3, MsgUnknownError),
    Event(<<"5">>, StreamA, 1, MsgEnd(Req1)),
    Event(<<"6">>, StreamA, 2, MsgReport(Req1)),
    Event(<<"1">>, StreamB, 1, MsgStart(Req2)),
    Event(<<"4">>, StreamB, 0, MsgUnknownError),
    Event(<<"6">>, StreamB, 3, MsgReport(Req2)),
    Event(<<"7">>, StreamA, 0, MsgStart(Req2)) }

LinePool == {ParseLogMetadata(e, PythonRuntime).log : e \in GroupEvents}

LineSeqs == SeqsUpTo(LinePool, MaxLines)

(* messages for parseLogMetadata *)

MaxSegments == 2

Iso == <<"2","0","1","9","-","1","1","-","1","2","T","2","0",":","0","0",":","3","0",".","1","8","4","Z">>

PyTime == <<"2","0","1","9","-","1","1","-","1","2","T","2","0",":","0","0",":","3","0","Z">>

ShortId == <<"1","1","1","1","1","1","1","1","-","1","1","1","1","-","1","1","1","1","-","1","1","1","1","-","1","1","1","1","1","1","1","1","1","1","1">>

(* the tab-separated segments of a REPORT line, each with the field it is  *)
(* for and the value it carries *)
ReportSegments ==
  { [text |-> <<"D","u","r","a","t","i","o","n",":"," ","1","2",".","3"," ","m","s">>, field |-> "duration", value |-> <<"1","2",".","3">>],
    [text |-> <<"B","i","l","l","e","d"," ","D","u","r","a","t","i","o","n",":"," ","1","3"," ","m","s">>, field |-> "none", value |-> UNDEF],
    [text |-> <<"M","e","m","o","r","y"," ","S","i","z","e",":"," ","1","2","8"," ","M","B">>, field |-> "memSize", value |-> <<"1","2","8">>],
    [text |-> <<" ","M","a","x"," ","M","e","m","o","r","y"," ","U","s","e","d",":"," ","4","5"," ","M","B"," ">>, field |-> "memUsed", value |-> <<"4","5">>],
    [text |-> <<"X","R","A","Y"," ","T","r","a","c","e","I","d",":"," ","1","-","5","7","5","9","e","9","8","8">>, field |-> "xrayTraceId", value |-> <<"1","-","5","7","5","9","e","9","8","8">>],
    [text |-> <<"I","n","i","t"," ","D","u","r","a","t","i","o","n",":"," ","2",".","2","2"," ","m","s">>, field |-> "none", value |-> UNDEF],
    [text |-> <<"M","e","m","o","r","y"," ","S","i","z","e">>, field |-> "memSize", value |-> UNDEF] }

RECURSIVE TabbedSegments(_)
TabbedSegments(segs) ==
  IF segs = <<>> THEN <<>> ELSE <<"\t">> \o Head(segs).text \o TabbedSegments(Tail(segs))

ReportOf(req, segs) == <<"R","E","P","O","R","T"," ","R","e","q","u","e","s","t","I","d",":"," ">> \o req \o TabbedSegments(segs) \o <<"\n">>

ReportCases ==
  {[message |-> ReportOf(Req1, segs), segs |-> segs] : segs \in SeqsUpTo(ReportSegments, MaxSegments)}

MsgTimeout(req) == Iso \o <<" ">> \o req \o <<" ","T","a","s","k"," ","t","i","m","e","d"," ","o","u","t"," ","a","f","t","e","r"," ","6",".","0","0"," ","s","e","c","o","n","d","s","\n">>

MsgSpaced(req) == <<" ","\t">> \o Iso \o <<" ">> \o req \o <<" ","h","e","l","l","o"," "," ","b","i","g"," ","w","o","r","l","d","\n">>

MsgExited(req) == <<"R","e","q","u","e","s","t","I","d",":"," ">> \o req \o <<" ","P","r","o","c","e","s","s"," ","e","x","i","t","e","d"," ","b","e","f","o","r","e"," ","c","o","m","p","l","e","t","i","n","g"," ","r","e","q","u","e","s","t","\n">>

MsgPython(tag, req) == tag \o <<"\t">> \o PyTime \o <<"\t">> \o req \o <<"\t","t","h","i","s"," ","i","s","\t","a"," ","l","i","n","e","\n">>

MsgPythonTraced(tag, req) ==
  tag \o <<"\t">> \o PyTime \o <<"\t">> \o req \o <<"\t","f","a","i","l","e","d",":"," ","T","r","a","c","e","b","a","c","k"," ","(","m","o","s","t"," ","r","e","c","e","n","t"," ","c","a","l","l"," ","l","a","s","t",")",":"," ","m","a","i","n","\n">>

MsgTraceback == <<"b","o","o","m","\n","T","r","a","c","e","b","a","c","k"," ","(","m","o","s","t"," ","r","e","c","e","n","t"," ","c","a","l","l"," ","l","a","s","t",")",":","\n"," "," ","F","i","l","e"," ","\"","a",".","p","y","\"",","," ","l","i","n","e"," ","1","\n">>

MsgNode(req, rest) == Iso \o <<"\t">> \o req \o <<"\t">> \o rest

ClassifyMessages ==
  { MsgStart(Req1), <<"S","T","A","R","T"," ","R","e","q","u","e","s","t","I","d",":"," ","a","b","c">>, <<" "," ","S","T","A","R","T"," ","R","e","q","u","e","s","t","I","d",":"," ">> \o Req2 \o <<"\n">>,
    MsgEnd(Req1), <<"E","N","D"," ","R","e","q","u","e","s","t","I","d",":"," ","a","b","c","d","e","f","g">>, <<"E","N","D","E","D"," ","R","e","q","u","e","s","t","I","d",":"," ">> \o Req1,
    Iso \o <<" ">> \o Req1 \o <<" ","h","e","l","l","o","\n">>, MsgTimeout(Req2), MsgSpaced(Req1),
    Iso \o <<" ">> \o Req1 \o <<" ","T","a","s","k"," ","t","i","m","e","d"," ","o","u","t","\n">>, Iso \o <<" ">> \o ShortId \o <<" ","h","e","l","l","o","\n">>,
    Iso \o <<" ">> \o Req1,
    MsgExited(Req1), MsgUnknownError, <<"m","o","d","u","l","e"," ","i","n","i","t","i","a","l","i","z","a","t","i","o","n"," ","e","r","r","o","r",":"," ","b","o","o","m","\n">>,
    <<"R","e","q","u","e","s","t","I","d",":"," ">> \o Req2 \o <<" ","E","r","r","o","r",":"," ","R","u","n","t","i","m","e"," ","e","x","i","t","e","d"," ","w","i","t","h"," ","e","r","r","o","r",":"," "," ","s","i","g","n","a","l",":"," ","a","b","o","r","t","e","d","\n">>,
    <<"R","e","q","u","e","s","t","I","d",":"," ">> \o ShortId \o <<" ","P","r","o","c","e","s","s"," ","e","x","i","t","e","d","\n">>, <<"R","e","q","u","e","s","t","I","d",":"," ">> \o Req1,
    <<"A","n"," ","U","n","k","n","o","w","n"," ","a","p","p","l","i","c","a","t","i","o","n"," ","e","r","r","o","r"," ","o","c","c","u","r","r","e","d">>, <<" ","m","o","d","u","l","e"," ","i","n","i","t","i","a","l","i","z","a","t","i","o","n"," ","e","r","r","o","r","\n">>,
    MsgNodeWarn(Req1), MsgNode(Req2, <<"E","R","R","O","R","\t","I","n","v","o","k","e"," ","E","r","r","o","r","\t","{","}","\n">>),
    MsgNode(Req1, <<"I","N","F","O","\t","l","o","g"," ","h","e","l","l","o","\n">>), MsgNode(Req1, <<"l","o","g"," ","h","e","l","l","o","\n">>),
    MsgNode(<<"u","n","d","e","f","i","n","e","d">>, <<"E","R","R","O","R","\t","U","n","c","a","u","g","h","t"," ","E","x","c","e","p","t","i","o","n","\n">>),
    MsgPython(<<"[","I","N","F","O","]">>, Req1), MsgPython(<<"[","W","A","R","N","I","N","G","]">>, Req2), MsgPython(<<"[","E","R","R","O","R","]">>, Req1),
    MsgPython(<<"[","C","R","I","T","I","C","A","L","]">>, Req1), MsgPython(<<"[","D","E","B","U","G","]">>, Req1), MsgPython(<<"[","I","N","F","O","]">>, ShortId),
    MsgPythonWarning(Req2), MsgPythonTraced(<<"[","I","N","F","O","]">>, Req1), MsgPythonTraced(<<"[","E","R","R","O","R","]">>, Req2),
    MsgTraceback, <<"T","r","a","c","e","b","a","c","k"," ","(","m","o","s","t"," ","r","e","c","e","n","t"," ","c","a","l","l"," ","l","a","s","t",")",":","\n"," "," ","F","i","l","e","\n">>,
    MsgPlain, <<"h","e","l","l","o">>, <<" ","\t","h","e","l","l","o"," ","b","i","g","\t","w","o","r","l","d"," ","\n","\n">>, <<>>, <<" ","\n">> }
  \cup {c.message : c \in ReportCases}

ClassifyEvents == {Event(<<"1">>, StreamA, 1, m) : m \in ClassifyMessages}

----------------------------------------------------------------------------
(* useLogsQuery *)

VARIABLES runtime, pages, pc, sorted, parsed, idx,
          invocations, currentInvocation, data, prevSorted, prevData

vars == <<runtime, pages, pc, sorted, parsed, idx,
          invocations, currentInvocation, data, prevSorted, prevData>>

(* const events = resp.data?.pages.flatMap(({ events }) => events) || [] *)
Events == FlatMap(pages)

Init ==
  /\ runtime \in Runtimes
  /\ pages = <<>>
  /\ pc = "render"
  /\ sorted = <<>>
  /\ parsed = <<>>
  /\ idx = 1
  /\ invocations = <<>>
  /\ currentInvocation = NewInvocation
  /\ data = <<>>
  /\ prevSorted = <<>>
  /\ prevData = <<>>

(* groupLogs called on any sequence of classified lines *)
InitGroup ==
  /\ runtime = PythonRuntime
  /\ pages = <<>>
  /\ pc = "group"
  /\ sorted = <<>>
  /\ parsed \in LineSeqs
  /\ idx = 1
  /\ invocations = <<>>
  /\ currentInvocation = NewInvocation
  /\ data = <<>>
  /\ prevSorted = <<>>
  /\ prevData = <<>>

(* parseLogMetadata called on one event, for every runtime *)
InitParse ==
  /\ runtime \in Runtimes
  /\ pages = <<>>
  /\ pc = "classify"
  /\ sorted \in {<<WithSortKey(e)>> : e \in ClassifyEvents}
  /\ parsed = <<>>
  /\ idx = 1
  /\ invocations = <<>>
  /\ currentInvocation = NewInvocation
  /\ data = <<>>
  /\ prevSorted = <<>>
  /\ prevData = <<>>

(* the query delivers one more page; the hook renders again.  prevSorted   *)
(* and prevData keep the normalized events and the result of the render    *)
(* before this page *)
FetchPage ==
  /\ pc = "done"
  /\ \E page \in PagesWithin[MaxFetched - Fetched(pages)] : pages' = Append(pages, page)
  /\ prevSorted' = sorted
  /\ prevData' = data
  /\ pc' = "render"
  /\ UNCHANGED <<runtime, sorted, parsed, idx, invocations, currentInvocation, data>>

(* sorted.map(event => parseLogMetadata(event, opts.runtime)) *)
MapParse(logs, rt) == [i \in 1..Len(logs) |-> ParseLogMetadata(logs[i], rt)]

(* the classified lines go on to then; an exception that leaves            *)
(* parseLogMetadata ends the render *)
SetParsed(results, then) ==
  IF \E i \in 1..Len(results) : results[i].raised
    THEN /\ pc' = "crashed"
         /\ parsed' = <<>>
    ELSE /\ pc' = then
         /\ parsed' = [i \in 1..Len(results) |-> results[i].log]

(* uniqBy, sortLogs, sorted.map(parseLogMetadata) *)
Render ==
  /\ pc = "render"
  /\ sorted' = SortLogs(UniqBy(Events))
  /\ SetParsed(MapParse(sorted', runtime), "group")
  /\ idx' = 1
  /\ invocations' = <<>>
  /\ currentInvocation' = NewInvocation
  /\ UNCHANGED <<runtime, pages, data, prevSorted, prevData>>

(* one call of the forEach callback of groupLogs *)
GroupStep ==
  /\ pc = "group"
  /\ idx <= Len(parsed)
  /\ LET r == GroupLine(invocations, currentInvocation, parsed[idx], idx)
     IN  /\ invocations' = r.invocations
         /\ currentInvocation' = r.current
  /\ idx' = idx + 1
  /\ UNCHANGED <<runtime, pages, pc, sorted, parsed, data, prevSorted, prevData>>

(* the lines still accumulated at the end of the input are not pushed *)
GroupFinishDropsOpen ==
  /\ pc = "group"
  /\ idx > Len(parsed)
  /\ invocations' = SortInvocations(invocations)
  /\ data' = invocations'
  /\ pc' = "done"
  /\ UNCHANGED <<runtime, pages, sorted, parsed, idx, currentInvocation,
                 prevSorted, prevData>>

(* the last push, the sort in place and the return *)
GroupFinish ==
  /\ pc = "group"
  /\ idx > Len(parsed)
  /\ invocations' = SortInvocations(Push(invocations, currentInvocation))
  /\ data' = invocations'
  /\ pc' = "done"
  /\ UNCHANGED <<runtime, pages, sorted, parsed, idx, currentInvocation,
                 prevSorted, prevData>>

(* parseLogMetadata on the event of sorted *)
Classify ==
  /\ pc = "classify"
  /\ SetParsed(MapParse(sorted, runtime), "classified")
  /\ UNCHANGED <<runtime, pages, sorted, idx, invocations, currentInvocation, data,
                 prevSorted, prevData>>

Next == FetchPage \/ Render \/ GroupStep \/ GroupFinish

Spec == Init /\ [][Next]_vars

NextGroup == GroupStep \/ GroupFinish

SpecGroup == InitGroup /\ [][NextGroup]_vars

NextParse == Classify

SpecParse == InitParse /\ [][NextParse]_vars
----------------------------------------------------------------------------
(* properties of groupLogs, checked under SpecGroup *)

Rank(level) == IF level = "ERROR" THEN 2 ELSE IF level = "WARN" THEN 1 ELSE 0

RECURSIVE SumOfLens(_)
SumOfLens(invs) == IF invs = <<>> THEN 0 ELSE Len(Head(invs).logs) + SumOfLens(Tail(invs))

(* the places <<k, j>> of the output where input line i was put *)
PlacesOf(i) ==
  {p \in {<<k, j>> : k \in 1..Len(data), j \in 1..MaxLines + 1} :
     p[2] <= Len(data[p[1]].lines) /\ data[p[1]].lines[p[2]] = i}

(* C1: when groupLogs has returned, every input line is in exactly one     *)
(* output invocation, with its own message, and the lengths of the logs    *)
(* lists add up to the number of input lines. *)
C1_Completeness ==
  pc = "done" =>
    /\ SumOfLens(data) = Len(parsed)
    /\ \A k \in 1..Len(data) : Len(data[k].logs) = Len(data[k].lines)
    /\ \A i \in 1..Len(parsed) :
         /\ Cardinality(PlacesOf(i)) = 1
         /\ \A p \in PlacesOf(i) : data[p[1]].logs[p[2]] = parsed[i].message

C1_Witness ==
  /\ pc = "done"
  /\ Len(parsed) >= 3
  /\ Len(data) >= 2
  /\ \E k \in 1..Len(data) : Len(data[k].logs) = 1

(* C2: from one forEach call to the next, while the same invocation is     *)
(* being accumulated, its logLevel never goes down in INFO < WARN < ERROR. *)
C2_MonotonicEscalation ==
  [][(/\ pc = "group"
      /\ currentInvocation.logs # <<>>
      /\ currentInvocation'.logs # <<>>
      /\ currentInvocation'.lines[1] = currentInvocation.lines[1])
     => Rank(currentInvocation'.logLevel) >= Rank(currentInvocation.logLevel)]_vars

(* the level the lines of an invocation call for *)
LevelOfLines(inv) ==
  IF \E j \in 1..Len(inv.lines) : parsed[inv.lines[j]].level = "ERROR" THEN "ERROR"
  ELSE IF \E j \in 1..Len(inv.lines) : parsed[inv.lines[j]].level = "WARN" THEN "WARN"
  ELSE "INFO"

(* C3: the logLevel of every returned invocation is ERROR when one of its  *)
(* lines is ERROR, else WARN when one of its lines is WARN, else INFO. *)
C3_FinalLevel ==
  pc = "done" => \A k \in 1..Len(data) : data[k].logLevel = LevelOfLines(data[k])

(* C4: the returned invocations are in descending order of firstLineTime. *)
C4_Ordering ==
  pc = "done" =>
    \A k \in 1..(Len(data) - 1) : data[k].firstLineTime >= data[k + 1].firstLineTime

(* the sort moved an invocation flushed later in front of an earlier one *)
C4_Witness ==
  /\ pc = "done"
  /\ Len(data) >= 3
  /\ \E k \in 1..(Len(data) - 1) :
       /\ data[k].firstLineTime > data[k + 1].firstLineTime
       /\ data[k].lines[1] > data[k + 1].lines[1]

(* an input of two streams that hold one START ... REPORT sequence each:   *)
(* the first n lines on one stream, the others on another *)
TwoStreamExample(n) ==
  /\ n >= 2
  /\ Len(parsed) >= n + 2
  /\ \A i \in 1..n : parsed[i].logStream = parsed[1].logStream
  /\ \A i \in (n + 1)..Len(parsed) : parsed[i].logStream = parsed[n + 1].logStream
  /\ parsed[1].logStream # parsed[n + 1].logStream
  /\ \A i \in 1..Len(parsed) : parsed[i].level = "START" <=> i \in {1, n + 1}
  /\ \A i \in 1..Len(parsed) : parsed[i].level = "REPORT" <=> i \in {n, Len(parsed)}

(* C5: every returned invocation holds lines of one log stream only, the   *)
(* one in its logStream field; two streams with one START ... REPORT       *)
(* sequence each give two invocations, one per stream. *)
C5_StreamIsolation ==
  pc = "done" =>
    /\ \A k \in 1..Len(data) : \A j \in 1..Len(data[k].lines) :
         parsed[data[k].lines[j]].logStream = data[k].logStream
    /\ \A n \in 1..Len(parsed) :
         TwoStreamExample(n) =>
           /\ Len(data) = 2
           /\ {data[1].lines, data[2].lines}
                = {[j \in 1..n |-> j], [j \in 1..(Len(parsed) - n) |-> n + j]}

C5_Witness == pc = "done" /\ \E n \in 1..Len(parsed) : TwoStreamExample(n)

(* one START line, INFO lines, one END line and one REPORT line, in this    *)
(* order, on one log stream *)
ExampleA ==
  /\ Len(parsed) >= 3
  /\ parsed[1].level = "START"
  /\ parsed[Len(parsed) - 1].level = "END"
  /\ parsed[Len(parsed)].level = "REPORT"
  /\ \A i \in 2..(Len(parsed) - 2) : parsed[i].level = "INFO"
  /\ \A i \in 1..Len(parsed) : parsed[i].logStream = parsed[1].logStream

(* C11: a complete invocation (START, body lines that are neither WARN nor *)
(* ERROR, END, REPORT on one stream) is returned as exactly one invocation *)
(* with the request id and the timestamp of the START line as requestId,   *)
(* startTime and firstLineTime, the timestamp of the REPORT line as        *)
(* endTime, the duration, memSize and memUsed of the REPORT line ("12.3",  *)
(* "128", "45") and logLevel INFO. *)
C11_CompleteInvocation ==
  (pc = "done" /\ ExampleA) =>
    /\ Len(data) = 1
    /\ data[1].requestId = parsed[1].requestId
    /\ data[1].startTime = parsed[1].timestamp
    /\ data[1].firstLineTime = parsed[1].timestamp
    /\ data[1].endTime = parsed[Len(parsed)].timestamp
    /\ data[1].duration = <<"1","2",".","3">>
    /\ data[1].memSize = <<"1","2","8">>
    /\ data[1].memUsed = <<"4","5">>
    /\ data[1].logLevel = "INFO"

(* the accumulator holds no line when line i arrives *)
ArrivesOnEmpty(i) ==
  \/ i = 1
  \/ parsed[i - 1].level = "REPORT"
  \/ parsed[i - 1].logStream # parsed[i].logStream

(* C12: a REPORT line that arrives on an empty accumulator is returned as  *)
(* an invocation of its own, with endTime the timestamp of the line,       *)
(* startTime unset and requestId, duration, memSize and memUsed those of   *)
(* the line; an input of one REPORT line gives exactly that invocation. *)
C12_MissingStart ==
  pc = "done" =>
    /\ \A i \in 1..Len(parsed) :
         (parsed[i].level = "REPORT" /\ ArrivesOnEmpty(i)) =>
           \E k \in 1..Len(data) :
             /\ data[k].lines = <<i>>
             /\ data[k].logs = <<parsed[i].message>>
             /\ data[k].endTime = parsed[i].timestamp
             /\ data[k].startTime = NoTime
             /\ data[k].requestId = parsed[i].requestId
             /\ data[k].requestId \in {Req1, Req2}
             /\ data[k].duration = <<"1","2",".","3">>
             /\ data[k].memSize = <<"1","2","8">>
             /\ data[k].memUsed = <<"4","5">>
    /\ (Len(parsed) = 1 /\ parsed[1].level = "REPORT") => Len(data) = 1

(* the input is one REPORT line *)
C12_Witness ==
  /\ pc = "done"
  /\ Len(parsed) = 1
  /\ parsed[1].level = "REPORT"
  /\ Len(data) = 1
  /\ data[1].endTime = parsed[1].timestamp

----------------------------------------------------------------------------
(* properties of the normalizer and of the whole render, checked under Spec *)

Rendered == pc \in {"group", "done"}

InputIds == {Events[i].eventId : i \in 1..Len(Events)}

(* an event of sortLogs without the sortKey it was given *)
Raw(log) == Event(log.eventId, log.logStreamName, log.timestamp, log.message)

(* C6: the normalized sequence holds exactly one event for every event     *)
(* identifier of the fetched pages, and every one of them is a fetched     *)
(* event. *)
C6_Dedup ==
  Rendered =>
    /\ {sorted[i].eventId : i \in 1..Len(sorted)} = InputIds
    /\ Len(sorted) = Cardinality(InputIds)
    /\ \A i \in 1..Len(sorted) : \E j \in 1..Len(Events) : Events[j] = Raw(sorted[i])

(* two pages shared identifiers *)
C6_Witness ==
  /\ pc = "done"
  /\ Len(pages) >= 2
  /\ Len(sorted) >= 2
  /\ Len(Events) > Len(sorted)

(* (log stream name, event identifier): the stream first, the identifier   *)
(* between events of one stream *)
CompositeLeq(x, y) ==
  \/ StrLess(x.logStreamName, y.logStreamName)
  \/ x.logStreamName = y.logStreamName /\ ~StrLess(y.eventId, x.eventId)

(* C7: sortLogs returns the events in ascending order of the composite     *)
(* key (log stream name, event identifier). *)
C7_CompositeOrder ==
  Rendered => \A i, j \in 1..Len(sorted) : i < j => CompositeLeq(sorted[i], sorted[j])

ParseAll(logs, rt) == [i \in 1..Len(logs) |-> ParseLogMetadata(logs[i], rt).log]

(* C8: uniqBy and sortLogs applied to the normalized sequence return it    *)
(* unchanged, and the pipeline run on it returns what the render returned. *)
C8_Idempotence ==
  pc = "done" =>
    LET again == SortLogs(UniqBy(sorted))
    IN  /\ again = sorted
        /\ GroupLogs(ParseAll(again, runtime)) = data

C8_Witness ==
  /\ pc = "done"
  /\ Len(sorted) >= 2
  /\ Len(data) >= 2
  /\ Len(Events) > Len(sorted)

LevelAt(logs, i) == ParseLogMetadata(logs[i], runtime).log.level

(* an invocation of the render before the last page that starts with a     *)
(* START line, ends with a REPORT line and whose events are still          *)
(* consecutive in the normalized order *)
Enclosed(inv) ==
  /\ LevelAt(prevSorted, inv.lines[1]) = "START"
  /\ LevelAt(prevSorted, inv.lines[Len(inv.lines)]) = "REPORT"
  /\ \E off \in 0..(Len(sorted) - Len(inv.lines)) :
       \A j \in 1..Len(inv.lines) : sorted[off + j] = prevSorted[inv.lines[j]]

(* equal but for the positions of the lines in the input *)
SameInvocation(a, b) == [a EXCEPT !.lines = <<>>] = [b EXCEPT !.lines = <<>>]

(* C9: after one more page, every START ... REPORT invocation of the       *)
(* render before it whose lines stay consecutive is returned again with    *)
(* the same logs, request id, times, REPORT metadata and logLevel. *)
C9_SupersetConsistency ==
  pc = "done" =>
    \A k \in 1..Len(prevData) :
      Enclosed(prevData[k]) => \E m \in 1..Len(data) : SameInvocation(data[m], prevData[k])

(* the last page brought a new line next to a complete invocation *)
C9_Witness ==
  /\ pc = "done"
  /\ Len(sorted) > Len(prevSorted)
  /\ \E k \in 1..Len(prevData) :
       /\ Enclosed(prevData[k])
       /\ \E i \in 1..Len(sorted) :
            /\ sorted[i].logStreamName = prevData[k].logStream
            /\ \A j \in 1..Len(prevSorted) : prevSorted[j] # sorted[i]

(* C10: no exception leaves the render, and the returned sequence is       *)
(* empty exactly when no event was fetched. *)
C10_NeverFails ==
  /\ pc # "crashed"
  /\ pc = "done" => (data = <<>> <=> Events = <<>>)

(* a render that returned although a matcher raised on one of its events *)
C10_Witness ==
  /\ pc = "done"
  /\ data # <<>>
  /\ \E i \in 1..Len(sorted) : TryBlock(NewLog(sorted[i]), runtime).raised


----------------------------------------------------------------------------
(* properties of parseLogMetadata, checked under SpecParse: sorted[1] is   *)
(* the raw event, parsed[1] the classified line *)

Classified == pc = "classified"

(* the message as parseLogMetadata holds it when the matchers run *)
Seen == Trim(sorted[1].message)

(* C13: for every runtime, a message made of an ISO-8601 millisecond       *)
(* timestamp, a 36-character id and at least one more token, separated by  *)
(* single spaces, is classified with the id as requestId and the rest of   *)
(* the tokens joined by spaces as message; the level is ERROR and isFailed *)
(* is set when that rest starts with "Task timed out after", else the      *)
(* level is INFO and isFailed is not set. *)
C13_TimestampIdMessage ==
  Classified =>
    LET tokens == Split(Seen, " ")
    IN  (Len(tokens) >= 3 /\ IsIsoTimestamp(tokens[1]) /\ IsRequestId(tokens[2])) =>
          LET rest == Join(Slice(tokens, 2), " ")
          IN  /\ parsed[1].requestId = tokens[2]
              /\ parsed[1].message = rest
              /\ IF StartsWith(rest, <<"T","a","s","k"," ","t","i","m","e","d"," ","o","u","t"," ","a","f","t","e","r">>)
                   THEN /\ parsed[1].level = "ERROR"
                        /\ parsed[1].invocationMetadata.isFailed = "true"
                   ELSE /\ parsed[1].level = "INFO"
                        /\ parsed[1].invocationMetadata.isFailed # "true"

(* a timeout line classified under the python runtime *)
C13_Witness ==
  /\ Classified
  /\ runtime = PythonRuntime
  /\ sorted[1].message = MsgTimeout(Req2)
  /\ parsed[1].level = "ERROR"
  /\ parsed[1].message = <<"T","a","s","k"," ","t","i","m","e","d"," ","o","u","t"," ","a","f","t","e","r"," ","6",".","0","0"," ","s","e","c","o","n","d","s">>

(* no matcher assigned a level *)
Unmatched == TryBlock(NewLog(sorted[1]), runtime).log.level = NoLevel

(* C14 as stated: an event that no matcher matches is classified INFO with *)
(* a message equal, character for character, to the raw message of the     *)
(* event, leading and trailing whitespace included. *)
C14_Verbatim ==
  (Classified /\ Unmatched) =>
    /\ parsed[1].level = "INFO"
    /\ parsed[1].message = sorted[1].message

(* m is raw without its leading and trailing whitespace *)
IsTrimOf(m, raw) ==
  /\ m # <<>> => (m[1] \notin WhiteSpace /\ m[Len(m)] \notin WhiteSpace)
  /\ \E a \in 0..Len(raw) : \E b \in a..Len(raw) :
       /\ SubSeq(raw, a + 1, b) = m
       /\ \A i \in 1..a : raw[i] \in WhiteSpace
       /\ \A i \in (b + 1)..Len(raw) : raw[i] \in WhiteSpace

(* C14 amended: an event that no matcher matches is classified INFO, with  *)
(* no request id and no metadata, and its message is the raw message       *)
(* without its leading and trailing whitespace; the whitespace inside is   *)
(* kept. *)
C14_Trimmed ==
  (Classified /\ Unmatched) =>
    /\ parsed[1].level = "INFO"
    /\ IsTrimOf(parsed[1].message, sorted[1].message)
    /\ parsed[1].requestId = UNDEF
    /\ parsed[1].invocationMetadata = NoMetadata

(* whitespace on both sides and inside *)
C14_Witness ==
  /\ Classified
  /\ Unmatched
  /\ sorted[1].message = <<" ","\t","h","e","l","l","o"," ","b","i","g","\t","w","o","r","l","d"," ","\n","\n">>
  /\ parsed[1].message = <<"h","e","l","l","o"," ","b","i","g","\t","w","o","r","l","d">>

(* the matchers of parseLogMetadata in their order of priority *)
Matchers == 1..10

Matcher(k, log, rt) ==
  LET spcParts == Split(log.message, " ")
      tabParts == Split(log.message, "\t")
  IN  CASE k = 1 -> ParseLambdaSTART(log)
        [] k = 2 -> ParseLambdaEND(log)
        [] k = 3 -> ParseLambdaREPORT(log)
        [] k = 4 -> ParseLambdaUnknownApplicationError(log)
        [] k = 5 -> ParseLambdaModuleInitializationError(log)
        [] k = 6 -> ParseLambdaExited(log, spcParts)
        [] k = 7 -> ParseLambdaTimeoutOrMessage(log, spcParts)
        [] k = 8 -> IF IsNodeFamily(rt) THEN ParseLambdaNodeLog(log, tabParts).log ELSE log
        [] k = 9 -> IF IsPythonFamily(rt) THEN ParseLambdaPythonLog(log, tabParts) ELSE log
        [] k = 10 -> IF IsPythonFamily(rt) THEN ParseLambdaPythonTraceback(log) ELSE log

(* matcher k is the first one that assigns a level to the event *)
FirstMatch(k) ==
  /\ Matcher(k, NewLog(sorted[1]), runtime).level # NoLevel
  /\ \A j \in 1..(k - 1) : Matcher(j, NewLog(sorted[1]), runtime).level = NoLevel

(* C15: the classified line is what the first matcher that matches makes   *)
(* of the event: no matcher later in the order changes its level, message, *)
(* request id or metadata. *)
C15_FirstMatchWins ==
  Classified =>
    \A k \in Matchers :
      FirstMatch(k) => parsed[1] = Matcher(k, NewLog(sorted[1]), runtime)

(* the value of the last segment of segs that is for field f *)
LastOf(segs, f) ==
  LET at == {i \in 1..Len(segs) : segs[i].field = f}
  IN  IF at = {} THEN UNDEF ELSE segs[CHOOSE i \in at : \A j \in at : j <= i].value

(* C16: a message that starts with "REPORT RequestId: " is classified      *)
(* REPORT for every runtime; each tab-separated segment sets at most the   *)
(* field its prefix names (Duration, Memory Size, Max Memory Used, XRAY    *)
(* TraceId), a segment with another prefix (Billed Duration, Init          *)
(* Duration) sets nothing, and a missing or malformed segment leaves its   *)
(* own field unset and the other fields and the level as they are. *)
C16_ReportFields ==
  Classified =>
    \A c \in ReportCases :
      sorted[1].message = c.message =>
        /\ parsed[1].level = "REPORT"
        /\ parsed[1].requestId = Req1
        /\ parsed[1].message = Seen
        /\ \A f \in {"duration", "memSize", "memUsed", "xrayTraceId"} :
             parsed[1].invocationMetadata[f] = LastOf(c.segs, f)
        /\ parsed[1].invocationMetadata.isFailed = "undefined"

(* a malformed segment next to a good one *)
C16_Witness ==
  /\ Classified
  /\ \E c \in ReportCases :
       /\ sorted[1].message = c.message
       /\ Len(c.segs) = 2
       /\ c.segs[1] = [text |-> <<"M","e","m","o","r","y"," ","S","i","z","e">>, field |-> "memSize", value |-> UNDEF]
       /\ c.segs[2].field = "memUsed"
  /\ parsed[1].invocationMetadata.memSize = UNDEF
  /\ parsed[1].invocationMetadata.memUsed = <<"4","5">>

(* the characters of m that follow its first n, 36 at most *)
IdAfter(m, n) == [i \in 1..Min(IdLen, Len(m) - n) |-> m[n + i]]

(* C17: for every runtime, a message that begins with "START RequestId: "  *)
(* is classified START and one that begins with "END RequestId: " is       *)
(* classified END, with the request id the 36 characters (fewer when the   *)
(* message ends before) that follow the prefix, and the message is left    *)
(* as it was. *)
C17_BoundaryMarkers ==
  Classified =>
    /\ StartsWith(Seen, <<"S","T","A","R","T"," ","R","e","q","u","e","s","t","I","d",":"," ">>) =>
         /\ parsed[1].level = "START"
         /\ parsed[1].requestId = IdAfter(Seen, Len(<<"S","T","A","R","T"," ","R","e","q","u","e","s","t","I","d",":"," ">>))
         /\ parsed[1].message = Seen
    /\ StartsWith(Seen, <<"E","N","D"," ","R","e","q","u","e","s","t","I","d",":"," ">>) =>
         /\ parsed[1].level = "END"
         /\ parsed[1].requestId = IdAfter(Seen, Len(<<"E","N","D"," ","R","e","q","u","e","s","t","I","d",":"," ">>))
         /\ parsed[1].message = Seen

(* an END line with a short id *)
C17_Witness ==
  /\ Classified
  /\ runtime = NodeRuntime
  /\ sorted[1].message = <<"E","N","D"," ","R","e","q","u","e","s","t","I","d",":"," ","a","b","c","d","e","f","g">>
  /\ parsed[1].level = "END"
  /\ parsed[1].requestId = <<"a","b","c","d","e","f","g">>

(* what lines 215-225 made of the event *)
Agnostic == AgnosticSteps(NewLog(sorted[1]))

LevelNamed(token) ==
  IF token = <<"I","N","F","O">> THEN "INFO" ELSE IF token = <<"W","A","R","N">> THEN "WARN" ELSE "ERROR"

(* C18: under a runtime that starts with "nodejs", a message that steps    *)
(* 1-4 left unclassified and whose tab-separated tokens are an ISO-8601    *)
(* timestamp, a second token and at least one more gets the second token   *)
(* as requestId when it is a 36-character id; when the third token is      *)
(* INFO, WARN or ERROR the level is that token and the message the tokens  *)
(* after it joined by tabs, otherwise the level is INFO and the message    *)
(* the tokens from the third on joined by tabs. *)
C18_NodeLines ==
  Classified =>
    LET t == Split(Agnostic.message, "\t")
    IN  (/\ StartsWith(runtime, <<"n","o","d","e","j","s">>)
         /\ Agnostic.level = NoLevel
         /\ Len(t) >= 3
         /\ IsIsoTimestamp(t[1])) =>
          /\ IsRequestId(t[2]) => parsed[1].requestId = t[2]
          /\ IF t[3] \in {<<"I","N","F","O">>, <<"W","A","R","N">>, <<"E","R","R","O","R">>}
               THEN /\ parsed[1].level = LevelNamed(t[3])
                    /\ parsed[1].message = Join(Slice(t, 3), "\t")
               ELSE /\ parsed[1].level = "INFO"
                    /\ parsed[1].message = Join(Slice(t, 2), "\t")

(* C19: under a runtime that starts with "python", a message that steps    *)
(* 1-4 left unclassified and whose tab-separated tokens are a bracketed    *)
(* tag, a timestamp, a 36-character id and at least one more is classified *)
(* INFO for "[INFO]", WARN for "[WARNING]", ERROR for "[ERROR]" and        *)
(* "[CRITICAL]", with the id as requestId and "<tag> <rest>" as message; a *)
(* message not of that shape that holds "Traceback (most recent call       *)
(* last):" between whitespace is classified ERROR with isFailed set and    *)
(* its message unchanged. *)
C19_PythonLines ==
  Classified =>
    LET t == Split(Agnostic.message, "\t")
    IN  (StartsWith(runtime, <<"p","y","t","h","o","n">>) /\ Agnostic.level = NoLevel) =>
          IF Len(t) >= 4 /\ IsPythonTimestamp(t[2]) /\ IsRequestId(t[3])
            THEN /\ t[1] = <<"[","I","N","F","O","]">> => parsed[1].level = "INFO"
                 /\ t[1] = <<"[","W","A","R","N","I","N","G","]">> => parsed[1].level = "WARN"
                 /\ t[1] \in {<<"[","E","R","R","O","R","]">>, <<"[","C","R","I","T","I","C","A","L","]">>} => parsed[1].level = "ERROR"
                 /\ parsed[1].requestId = t[3]
                 /\ parsed[1].message = t[1] \o <<" ">> \o Join(Slice(t, 3), "\t")
            ELSE HasTraceback(Agnostic.message) =>
                   /\ parsed[1].level = "ERROR"
                   /\ parsed[1].invocationMetadata.isFailed = "true"
                   /\ parsed[1].message = Agnostic.message

(* C20: under a runtime that starts with neither "nodejs" nor "python" the *)
(* classified line is what steps 1-4 made of the event, and when none of   *)
(* them matched it is the event with level INFO, its message as it was, no *)
(* request id and no metadata: the node and python matchers are not        *)
(* applied. *)
C20_UnrecognizedRuntime ==
  (/\ Classified
   /\ ~StartsWith(runtime, <<"n","o","d","e","j","s">>)
   /\ ~StartsWith(runtime, <<"p","y","t","h","o","n">>)) =>
    IF Agnostic.level # NoLevel
      THEN parsed[1] = Agnostic
      ELSE /\ parsed[1].level = "INFO"
           /\ parsed[1].message = Seen
           /\ parsed[1].requestId = UNDEF
           /\ parsed[1].invocationMetadata = NoMetadata

(* a line that the python matchers would classify WARN or ERROR *)
C20_Witness ==
  /\ Classified
  /\ runtime = GoRuntime
  /\ ParseLogMetadata(sorted[1], PythonRuntime).log.level \in {"WARN", "ERROR"}
  /\ parsed[1].level = "INFO"
  /\ parsed[1].requestId = UNDEF

(* the line as it was when the try block of parseLogMetadata ended *)
AtCatch == TryBlock(NewLog(sorted[1]), runtime)

(* C21: when a matcher step raises while a line is classified,             *)
(* parseLogMetadata returns all the same; the returned line has the level  *)
(* assigned before the exception, INFO when none was, and every other      *)
(* field and the metadata are as they were when the exception was raised. *)
C21_SwallowedException ==
  /\ pc # "crashed"
  /\ (Classified /\ AtCatch.raised) =>
       parsed[1] = [AtCatch.log EXCEPT !.level = IF @ = NoLevel THEN "INFO" ELSE @]

(* a node line whose request-id assignment raised: returned as INFO with   *)
(* the trimmed message, no request id and no metadata *)
C21_Witness ==
  /\ Classified
  /\ runtime = NodeRuntime
  /\ sorted[1].message = MsgNodeWarn(Req1)
  /\ AtCatch.raised
  /\ parsed[1].level = "INFO"
  /\ parsed[1].message = Seen
  /\ parsed[1].requestId = UNDEF
  /\ parsed[1].invocationMetadata = NoMetadata

(* C22: for every runtime, a message whose space-separated tokens are      *)
(* "RequestId:", a 36-character id and at least one more is classified     *)
(* ERROR with isFailed set, the id as requestId and the tokens after the   *)
(* id joined by spaces as message; a message that starts with "Unknown     *)
(* application error occurred" or "module initialization error" is         *)
(* classified ERROR and its message stays as it was. *)
C22_ExitedEarly ==
  Classified =>
    LET tokens == Split(Seen, " ")
    IN  /\ (Len(tokens) >= 3 /\ tokens[1] = <<"R","e","q","u","e","s","t","I","d",":">> /\ IsRequestId(tokens[2])) =>
             /\ parsed[1].level = "ERROR"
             /\ parsed[1].invocationMetadata.isFailed = "true"
             /\ parsed[1].requestId = tokens[2]
             /\ parsed[1].message = Join(Slice(tokens, 2), " ")
        /\ (\/ StartsWith(Seen, <<"U","n","k","n","o","w","n"," ","a","p","p","l","i","c","a","t","i","o","n"," ","e","r","r","o","r"," ","o","c","c","u","r","r","e","d">>)
            \/ StartsWith(Seen, <<"m","o","d","u","l","e"," ","i","n","i","t","i","a","l","i","z","a","t","i","o","n"," ","e","r","r","o","r">>)) =>
             /\ parsed[1].level = "ERROR"
             /\ parsed[1].message = Seen

(* an exited-early line classified under the node runtime *)
C22_Witness ==
  /\ Classified
  /\ runtime = NodeRuntime
  /\ sorted[1].message = MsgExited(Req1)
  /\ parsed[1].level = "ERROR"
  /\ parsed[1].requestId = Req1
  /\ parsed[1].message = <<"P","r","o","c","e","s","s"," ","e","x","i","t","e","d"," ","b","e","f","o","r","e"," ","c","o","m","p","l","e","t","i","n","g"," ","r","e","q","u","e","s","t">>
  /\ parsed[1].invocationMetadata.isFailed = "true"

----------------------------------------------------------------------------
(* the boundaries of the invocations, checked under SpecGroup *)

(* the input line that became entry p of output invocation k *)
LineOf(k, p) == parsed[data[k].lines[p]]

(* the output invocation that holds input line i *)
HolderOf(i) == CHOOSE k \in 1..Len(data) : \E p \in 1..Len(data[k].lines) : data[k].lines[p] = i

(* C23: when groupLogs has returned, each START line is the first entry of *)
(* its invocation, whose requestId, logStream, firstLineTime and startTime *)
(* are those of the START line; no invocation holds two START lines, and   *)
(* the line before a START line is in another invocation. *)
C23_StartOpens ==
  pc = "done" =>
    /\ \A k \in 1..Len(data) : \A p \in 1..Len(data[k].lines) :
         LineOf(k, p).level = "START" =>
           /\ p = 1
           /\ data[k].requestId = LineOf(k, p).requestId
           /\ data[k].logStream = LineOf(k, p).logStream
           /\ data[k].firstLineTime = LineOf(k, p).timestamp
           /\ data[k].startTime = LineOf(k, p).timestamp
    /\ \A i \in 2..Len(parsed) :
         parsed[i].level = "START" => HolderOf(i - 1) # HolderOf(i)

(* C24: when groupLogs has returned, each REPORT line is the last entry of *)
(* its invocation, no invocation holds two REPORT lines, and the line that *)
(* follows a REPORT line in the input is in another invocation, whatever   *)
(* its log stream and level. *)
C24_ReportCloses ==
  pc = "done" =>
    /\ \A k \in 1..Len(data) : \A p \in 1..Len(data[k].lines) :
         LineOf(k, p).level = "REPORT" => p = Len(data[k].lines)
    /\ \A k \in 1..Len(data) :
         Cardinality({p \in 1..Len(data[k].lines) : LineOf(k, p).level = "REPORT"}) <= 1
    /\ \A i \in 1..(Len(parsed) - 1) :
         parsed[i].level = "REPORT" => HolderOf(i + 1) # HolderOf(i)

(* a REPORT line followed on its own log stream by a line that is not a    *)
(* START line *)
C24_Witness ==
  /\ pc = "done"
  /\ \E i \in 1..(Len(parsed) - 1) :
       /\ parsed[i].level = "REPORT"
       /\ parsed[i + 1].level \notin {"START", "REPORT"}
       /\ parsed[i + 1].logStream = parsed[i].logStream
       /\ i > 1
       /\ HolderOf(i - 1) = HolderOf(i)
       /\ HolderOf(i + 1) # HolderOf(i)

(* line i + 1 of the input arrives at a boundary: after a REPORT line, as  *)
(* a START line, or on another log stream than line i *)
Boundary(i) ==
  \/ parsed[i].level = "REPORT"
  \/ parsed[i + 1].level = "START"
  \/ parsed[i + 1].logStream # parsed[i].logStream

(* C25: when groupLogs has returned, two consecutive input lines of one    *)
(* log stream are in the same invocation unless the first is a REPORT line *)
(* or the second a START line; the invocations of a non-empty input are    *)
(* one more than the places where a REPORT line, a START line or another   *)
(* log stream ends one. *)
C25_NoSpuriousSplit ==
  pc = "done" =>
    /\ \A i \in 1..(Len(parsed) - 1) : ~Boundary(i) => HolderOf(i) = HolderOf(i + 1)
    /\ parsed # <<>> =>
         Len(data) = 1 + Cardinality({i \in 1..(Len(parsed) - 1) : Boundary(i)})

(* an END line and the line after it in one invocation, next to another    *)
(* invocation *)
C25_Witness ==
  /\ pc = "done"
  /\ Len(data) >= 2
  /\ \E i \in 1..(Len(parsed) - 1) :
       /\ parsed[i].level = "END"
       /\ ~Boundary(i)
       /\ HolderOf(i) = HolderOf(i + 1)

(* the first line of the run of input lines that ends with line n *)
RunStart(n) ==
  CHOOSE j \in 1..n : /\ \A m \in j..(n - 1) : ~Boundary(m)
                      /\ j = 1 \/ Boundary(j - 1)

(* C26: when groupLogs has returned, the lines that were still accumulated *)
(* at the end of the input are one output invocation; an output invocation *)
(* has endTime, duration, memSize, memUsed or xrayTraceId only if its last *)
(* line is a REPORT line, and has startTime exactly if its first line is a *)
(* START line. *)
C26_IncompleteKept ==
  pc = "done" =>
    /\ (parsed # <<>> /\ parsed[Len(parsed)].level # "REPORT") =>
         \E k \in 1..Len(data) :
           /\ data[k].lines = [p \in 1..(Len(parsed) - RunStart(Len(parsed)) + 1) |->
                                 RunStart(Len(parsed)) + p - 1]
           /\ data[k].logs = [p \in 1..Len(data[k].lines) |-> parsed[data[k].lines[p]].message]
           /\ data[k].endTime = NoTime
    /\ \A k \in 1..Len(data) :
         /\ (\/ data[k].endTime # NoTime
             \/ data[k].duration # UNDEF
             \/ data[k].memSize # UNDEF
             \/ data[k].memUsed # UNDEF
             \/ data[k].xrayTraceId # UNDEF) =>
              LineOf(k, Len(data[k].lines)).level = "REPORT"
         /\ data[k].startTime # NoTime <=> LineOf(k, 1).level = "START"

(* the input ends with two lines that no REPORT line closed and no START   *)
(* line opened, after a closed invocation *)
C26_Witness ==
  /\ pc = "done"
  /\ Len(parsed) >= 3
  /\ parsed[Len(parsed)].level # "REPORT"
  /\ RunStart(Len(parsed)) = Len(parsed) - 1
  /\ parsed[Len(parsed) - 1].level # "START"
  /\ \E k \in 1..Len(data) :
       /\ data[k].lines = <<Len(parsed) - 1, Len(parsed)>>
       /\ data[k].startTime = NoTime
       /\ data[k].endTime = NoTime
  /\ \E k \in 1..Len(data) : data[k].endTime # NoTime /\ data[k].startTime # NoTime

(* the entries of output invocation k whose line carries a request id *)
Carriers(k) == {p \in 1..Len(data[k].lines) : LineOf(k, p).requestId # UNDEF}

(* C27: when groupLogs has returned, the firstLineTime of each invocation  *)
(* is the timestamp of its first line, whatever that timestamp is (0       *)
(* too), and its requestId is the request id of its first line that        *)
(* carries one. *)
C27_FirstLineBackfill ==
  pc = "done" =>
    \A k \in 1..Len(data) :
      /\ data[k].firstLineTime = LineOf(k, 1).timestamp
      /\ IF Carriers(k) = {}
           THEN data[k].requestId = UNDEF
           ELSE \E p \in Carriers(k) :
                  /\ \A q \in Carriers(k) : p <= q
                  /\ data[k].requestId = LineOf(k, p).requestId

(* C28: two returned invocations of equal firstLineTime are in the order   *)
(* in which groupLogs pushed them, which is the order of their lines in    *)
(* the input. *)
C28_StableTies ==
  pc = "done" =>
    \A k1, k2 \in 1..Len(data) :
      (k1 < k2 /\ data[k1].firstLineTime = data[k2].firstLineTime) =>
        data[k1].lines[1] < data[k2].lines[1]

(* three invocations returned, the two of equal firstLineTime after a      *)
(* later one that was pushed last *)
C28_Witness ==
  /\ pc = "done"
  /\ Len(data) = 3
  /\ data[2].firstLineTime = data[3].firstLineTime
  /\ data[1].firstLineTime > data[2].firstLineTime
  /\ data[2].lines[1] < data[3].lines[1]
  /\ data[3].lines[1] < data[1].lines[1]

----------------------------------------------------------------------------
(* the normalized events and the grouper, checked under Spec and SpecGroup *)

(* C29: in the sequence returned by sortLogs the events of one log stream  *)
(* are adjacent: no event of another log stream lies between two events of *)
(* one log stream. *)
C29_StreamContiguity ==
  Rendered =>
    \A i, j, k \in 1..Len(sorted) :
      (i < j /\ j < k /\ sorted[i].logStreamName = sorted[k].logStreamName) =>
        sorted[j].logStreamName = sorted[i].logStreamName

(* the invocations of groupLogs as line 477 leaves them, before the sort *)
Flushed == Push(invocations, currentInvocation)

RECURSIVE ConcatLogs(_)
ConcatLogs(invs) == IF invs = <<>> THEN <<>> ELSE Head(invs).logs \o ConcatLogs(Tail(invs))

RECURSIVE ConcatLines(_)
ConcatLines(invs) == IF invs = <<>> THEN <<>> ELSE Head(invs).lines \o ConcatLines(Tail(invs))

(* C30: before the final sort the invocations that groupLogs pushed are    *)
(* non-empty, and their logs lists, one after the other in the order of    *)
(* the pushes, are the messages of the input lines in input order: each    *)
(* invocation is a non-empty run of consecutive input lines, in input      *)
(* order. *)
C30_PartitionIntoRuns ==
  (pc = "group" /\ idx > Len(parsed)) =>
    /\ \A k \in 1..Len(Flushed) : Flushed[k].logs # <<>>
    /\ ConcatLogs(Flushed) = [i \in 1..Len(parsed) |-> parsed[i].message]
    /\ ConcatLines(Flushed) = [i \in 1..Len(parsed) |-> i]

(* all lines taken, two invocations pushed and a third of two lines still  *)
(* accumulated *)
C30_Witness ==
  /\ pc = "group"
  /\ idx > Len(parsed)
  /\ Len(invocations) = 2
  /\ Len(currentInvocation.logs) = 2
  /\ Len(Flushed) = 3
  /\ ConcatLogs(Flushed) = [i \in 1..Len(parsed) |-> parsed[i].message]
====
